---------------------------- MODULE Spec2Model ----------------------------
(***************************************************************************)
(* Verification lifecycle of the user-validation plugin: the validations   *)
(* array of one document, the three document methods (isValidated,         *)
(* createValidationRequest, validateCode), the pre-save hook and the       *)
(* helpers of utils.ts (generateValidationCode, calculateExpiry,           *)
(* createValidation).                                                      *)
(*                                                                         *)
(* Dates are integers (milliseconds); strings that the code compares       *)
(* character-wise (codes) are sequences of one-character strings.          *)
(***************************************************************************)
EXTENDS Integers, Sequences, FiniteSets, TLC

VARIABLES
    validations,     \* this.validations: the array of Validation entries
    hasValidations,  \* FALSE while this.validations is undefined
    isNew,           \* this.isNew of the document
    now,             \* the clock read by `new Date()`
    pluginConfig,    \* the merged configuration captured by the plugin
    ret,             \* the last call made on the document and what it returned
    nOps,            \* number of calls made so far
    nTicks,          \* number of clock advances so far
    loaded,          \* per caller: the array of the copy it got from findById
    evaluated        \* in SpecWriters: submissions that reached the comparison
                     \* of the code (part_002:110)

vars == <<validations, hasValidations, isNew, now, pluginConfig, ret, nOps, nTicks,
          loaded, evaluated>>

-----------------------------------------------------------------------------
(* Bounds of the model *)

MaxOps == 3          \* calls made on the document in one run of Spec
MaxOpsWide == 2      \* calls made on the document in one run of SpecWide
MaxOpsDefaults == 2  \* calls made on the document in one run of SpecDefaults
MaxTicks == 1        \* clock advances in one run
RandRes == 2         \* Math.random() yields k / RandRes, k in 0 .. RandRes-1

-----------------------------------------------------------------------------
(* Types and configuration.  ENABLED is a reserved word of TLA+, so that   *)
(* one key of the configuration is read as config["ENABLED"].              *)

ValidationType == {"email", "phone", "identity", "address"}

\* an optional Date / number that is undefined
Undefined == -1
\* an optional metadata map that is undefined
NoMetadata == "undefined"

DEFAULT_CODE_LENGTH == 6
DEFAULT_EXPIRY == 3600
DEFAULT_MAX_TRIES == 5
DEFAULT_MAX_RESENDS == 3

defaultConfig ==
    ("ENABLED" :> TRUE) @@
    [EMAIL_VALIDATION |-> TRUE,
     PHONE_VALIDATION |-> TRUE,
     IDENTITY_VALIDATION |-> TRUE,
     ADDRESS_VALIDATION |-> TRUE,
     DEFAULT_CODE_LENGTH |-> DEFAULT_CODE_LENGTH,
     DEFAULT_EXPIRY |-> DEFAULT_EXPIRY,
     MAX_TRIES |-> DEFAULT_MAX_TRIES,
     MAX_RESENDS |-> DEFAULT_MAX_RESENDS]

\* { ...defaultConfig, ...config }: the keys of config override the defaults
MergeConfig(config) ==
    [key \in DOMAIN defaultConfig |->
        IF key \in DOMAIN config THEN config[key] ELSE defaultConfig[key]]

\* the partial configurations handed to the plugin in Spec: the attempt
\* ceiling and the flags that reach the type the caller works on
ConfigChoices ==
    {("ENABLED" :> enabled) @@ flags :
        enabled \in BOOLEAN,
        flags \in [EMAIL_VALIDATION : BOOLEAN,
                   PHONE_VALIDATION : BOOLEAN,
                   MAX_TRIES : {0, 1, 2}]}

\* the partial configurations handed to the plugin in SpecWide: every
\* combination of the switches
ConfigChoicesWide ==
    {("ENABLED" :> enabled) @@ flags :
        enabled \in BOOLEAN,
        flags \in [EMAIL_VALIDATION : BOOLEAN,
                   PHONE_VALIDATION : BOOLEAN,
                   IDENTITY_VALIDATION : BOOLEAN,
                   ADDRESS_VALIDATION : BOOLEAN,
                   MAX_TRIES : {1}]}

\* the partial configurations handed to the plugin in SpecDefaults: the
\* default code length and expiry left alone, and both overridden
ConfigChoicesDefaults ==
    {[MAX_TRIES |-> 1],
     [DEFAULT_CODE_LENGTH |-> 2, DEFAULT_EXPIRY |-> 2, MAX_TRIES |-> 1]}

\* the partial configurations handed to the plugin in SpecRequests: no
\* resend allowed, two attempts, the phone validation required or not
ConfigChoicesRequests ==
    [PHONE_VALIDATION : BOOLEAN, MAX_TRIES : {2}, MAX_RESENDS : {0}]

-----------------------------------------------------------------------------
(* utils.ts *)

DigitString == <<"0", "1", "2", "3", "4", "5", "6", "7", "8", "9">>

\* Math.floor(Math.random() * 10).toString() for Math.random() = k / RandRes
RandomDigit(k) == DigitString[((k * 10) \div RandRes) + 1]

\* the values Math.random() takes, as numerators over RandRes
RandomDraws(length) == [1 .. length -> 0 .. (RandRes - 1)]

\* mutant of generateValidationCode: the loop stops one digit early
generateValidationCode_OneShort(length, draws) ==
    [i \in 1 .. (length - 1) |-> RandomDigit(draws[i])]

\* the loop of generateValidationCode, over the draws of Math.random()
generateValidationCode(length, draws) ==
    [i \in 1 .. length |-> RandomDigit(draws[i])]

\* mutant of calculateExpiry: expiresIn is taken as milliseconds
calculateExpiry_Millis(expiresIn, t) == t + expiresIn

calculateExpiry(expiresIn, t) == t + (expiresIn * 1000)

\* a || b on optional numbers: undefined and 0 are falsy
OrDefault(value, default) ==
    IF value = Undefined \/ value = 0 THEN default ELSE value

CodeLengthOf(options) == OrDefault(options.codeLength, defaultConfig.DEFAULT_CODE_LENGTH)

ExpiresInOf(options) == OrDefault(options.expiresIn, defaultConfig.DEFAULT_EXPIRY)

\* tCreated and tExpiry are the two readings of `new Date()`: the one of
\* createValidation itself and the later one inside calculateExpiry
createValidation(type, options, validated, tCreated, tExpiry, draws) ==
    [type |-> type,
     validated |-> validated,
     created |-> tCreated,
     code |-> IF validated THEN <<>>
              ELSE generateValidationCode(CodeLengthOf(options), draws),
     resends |-> 0,
     tries |-> 0,
     last_try |-> Undefined,
     expire_at |-> IF validated THEN Undefined
                   ELSE calculateExpiry(ExpiresInOf(options), tExpiry),
     metadata |-> NoMetadata]

NoOptions ==
    [codeLength |-> Undefined, expiresIn |-> Undefined,
     maxTries |-> Undefined, maxResends |-> Undefined]

-----------------------------------------------------------------------------
(* Array helpers *)

\* Array.prototype.findIndex(v => v.type === type), 1-based; 0 when none
FindIndex(vs, type) ==
    IF \E i \in 1 .. Len(vs) : vs[i].type = type
    THEN CHOOSE i \in 1 .. Len(vs) :
            /\ vs[i].type = type
            /\ \A j \in 1 .. (i - 1) : vs[j].type # type
    ELSE 0

\* Array.prototype.splice(index, 1)
Splice(vs, index) ==
    [i \in 1 .. (Len(vs) - 1) |-> IF i < index THEN vs[i] ELSE vs[i + 1]]

\* this.validations || []
CurrentValidations == IF hasValidations THEN validations ELSE <<>>

-----------------------------------------------------------------------------
(* The document methods, as functions of the array *)

\* mutant of isValidatedIn: any entry of the type counts as validated
isValidatedIn_AnyEntry(present, vs, type) ==
    present /\ FindIndex(vs, type) # 0

\* this.validations?.find(v => v.type === type)?.validated ?? false
isValidatedIn(present, vs, type) ==
    IF present /\ FindIndex(vs, type) # 0
    THEN vs[FindIndex(vs, type)].validated
    ELSE FALSE

isValidated(type) == isValidatedIn(hasValidations, validations, type)

\* schema.virtual('<type>_validated').get(...)
email_validated == isValidated("email")

\* mutant of phone_validated: the getter was copied from the one above and
\* still asks for 'email'
phone_validated_CopyPaste == isValidated("email")

phone_validated == isValidated("phone")

identity_validated == isValidated("identity")

address_validated == isValidated("address")

\* mutant of RequestValidations: the existing entry is not removed
RequestValidations_Push(vs, type, newValidation) ==
    Append(vs, newValidation)

\* mutant of RequestValidations: the counters, last_try and metadata of the
\* existing entry are carried over to the new one
RequestValidations_CarryOver(vs, type, newValidation) ==
    LET existingIndex == FindIndex(vs, type) IN
    IF existingIndex >= 1
    THEN Append(Splice(vs, existingIndex),
                [newValidation EXCEPT !.tries = vs[existingIndex].tries,
                                      !.resends = vs[existingIndex].resends,
                                      !.last_try = vs[existingIndex].last_try,
                                      !.metadata = vs[existingIndex].metadata])
    ELSE Append(vs, newValidation)

\* mutant of RequestValidations: a request that replaces an entry counts as
\* a resend
RequestValidations_CountsResend(vs, type, newValidation) ==
    LET existingIndex == FindIndex(vs, type) IN
    IF existingIndex >= 1
    THEN Append(Splice(vs, existingIndex),
                [newValidation EXCEPT !.resends = vs[existingIndex].resends + 1])
    ELSE Append(vs, newValidation)

\* the array after createValidationRequest(type, options)
RequestValidations(vs, type, newValidation) ==
    LET existingIndex == FindIndex(vs, type)
        removed == IF existingIndex >= 1 THEN Splice(vs, existingIndex) ELSE vs
    IN  Append(removed, newValidation)

\* mutant of IsExpired: the instant of expiry itself already counts as expired
IsExpired_AtBoundary(validation, t) ==
    validation.expire_at # Undefined /\ validation.expire_at <= t

\* mutant of IsExpired: the comparison is turned around
IsExpired_Reversed(validation, t) ==
    validation.expire_at # Undefined /\ validation.expire_at > t

\* validation.expire_at && validation.expire_at < new Date()
IsExpired(validation, t) ==
    validation.expire_at # Undefined /\ validation.expire_at < t

\* mutant of MaxTriesExceeded: only the first attempt past the ceiling is
\* rejected
MaxTriesExceeded_OnlyNext(validation, config) ==
    validation.tries = config.MAX_TRIES + 1

\* mutant of MaxTriesExceeded: a ceiling of 0 is read as no ceiling
MaxTriesExceeded_ZeroIsUnlimited(validation, config) ==
    config.MAX_TRIES # 0 /\ validation.tries > config.MAX_TRIES

\* mutant of MaxTriesExceeded: the ceiling itself is already rejected
MaxTriesExceeded_AtCeiling(validation, config) ==
    validation.tries >= config.MAX_TRIES

\* validation.tries > pluginConfig.MAX_TRIES
MaxTriesExceeded(validation, config) == validation.tries > config.MAX_TRIES

\* mutant of CountTry: the attempt is counted but not dated
CountTry_NoLastTry(validation, t) ==
    [validation EXCEPT !.tries = @ + 1]

\* mutant of CountTry: the attempt is also noted in the metadata of the entry
CountTry_StampsMetadata(validation, t) ==
    [validation EXCEPT !.tries = @ + 1, !.last_try = t, !.metadata = "attempt"]

\* validation.tries += 1; validation.last_try = new Date()
CountTry(validation, t) ==
    [validation EXCEPT !.tries = @ + 1, !.last_try = t]

\* mutant of ValidateEntry: a success consumes the code and its expiry
ValidateEntry_ClearsCode(validation, code, config, t) ==
    IF validation.validated
    THEN [entry |-> validation, result |-> TRUE]
    ELSE IF IsExpired(validation, t)
    THEN [entry |-> validation, result |-> FALSE]
    ELSE LET tried == CountTry(validation, t) IN
         IF MaxTriesExceeded(tried, config)
         THEN [entry |-> tried, result |-> FALSE]
         ELSE IF tried.code = code
              THEN [entry |-> [tried EXCEPT !.validated = TRUE, !.code = <<>>,
                                            !.expire_at = Undefined],
                    result |-> TRUE]
              ELSE [entry |-> tried, result |-> FALSE]

\* mutant of ValidateEntry: a success starts the count of attempts again
ValidateEntry_ResetOnSuccess(validation, code, config, t) ==
    IF validation.validated
    THEN [entry |-> validation, result |-> TRUE]
    ELSE IF IsExpired(validation, t)
    THEN [entry |-> validation, result |-> FALSE]
    ELSE LET tried == CountTry(validation, t) IN
         IF MaxTriesExceeded(tried, config)
         THEN [entry |-> tried, result |-> FALSE]
         ELSE IF tried.code = code
              THEN [entry |-> [tried EXCEPT !.validated = TRUE, !.tries = 0],
                    result |-> TRUE]
              ELSE [entry |-> tried, result |-> FALSE]

\* mutant of ValidateEntry: an empty submission passes the comparison
ValidateEntry_AcceptsEmpty(validation, code, config, t) ==
    IF validation.validated
    THEN [entry |-> validation, result |-> TRUE]
    ELSE IF IsExpired(validation, t)
    THEN [entry |-> validation, result |-> FALSE]
    ELSE LET tried == CountTry(validation, t) IN
         IF MaxTriesExceeded(tried, config)
         THEN [entry |-> tried, result |-> FALSE]
         ELSE IF code = <<>> \/ tried.code = code
              THEN [entry |-> [tried EXCEPT !.validated = TRUE], result |-> TRUE]
              ELSE [entry |-> tried, result |-> FALSE]

\* mutant of ValidateEntry: a match returns true without setting validated
ValidateEntry_ForgetsFlag(validation, code, config, t) ==
    IF validation.validated
    THEN [entry |-> validation, result |-> TRUE]
    ELSE IF IsExpired(validation, t)
    THEN [entry |-> validation, result |-> FALSE]
    ELSE LET tried == CountTry(validation, t) IN
         IF MaxTriesExceeded(tried, config)
         THEN [entry |-> tried, result |-> FALSE]
         ELSE IF tried.code = code
              THEN [entry |-> tried, result |-> TRUE]
              ELSE [entry |-> tried, result |-> FALSE]

\* mutant of ValidateEntry: the ceiling is checked before the attempt is
\* counted
ValidateEntry_CeilingBeforeCount(validation, code, config, t) ==
    IF validation.validated
    THEN [entry |-> validation, result |-> TRUE]
    ELSE IF IsExpired(validation, t)
    THEN [entry |-> validation, result |-> FALSE]
    ELSE IF MaxTriesExceeded(validation, config)
    THEN [entry |-> CountTry(validation, t), result |-> FALSE]
    ELSE LET tried == CountTry(validation, t) IN
         IF tried.code = code
         THEN [entry |-> [tried EXCEPT !.validated = TRUE], result |-> TRUE]
         ELSE [entry |-> tried, result |-> FALSE]

\* mutant of ValidateEntry: expiry and the ceiling are checked before the
\* `Already validated` short cut
ValidateEntry_ExpiryFirst(validation, code, config, t) ==
    IF IsExpired(validation, t)
    THEN [entry |-> validation, result |-> FALSE]
    ELSE IF validation.validated
    THEN [entry |-> validation, result |-> TRUE]
    ELSE LET tried == CountTry(validation, t) IN
         IF MaxTriesExceeded(tried, config)
         THEN [entry |-> tried, result |-> FALSE]
         ELSE IF tried.code = code
              THEN [entry |-> [tried EXCEPT !.validated = TRUE], result |-> TRUE]
              ELSE [entry |-> tried, result |-> FALSE]

\* validateCode on the entry found, from the `Already validated` check on:
\* the entry afterwards and the value returned
ValidateEntry(validation, code, config, t) ==
    IF validation.validated
    THEN [entry |-> validation, result |-> TRUE]
    ELSE IF IsExpired(validation, t)
    THEN [entry |-> validation, result |-> FALSE]
    ELSE LET tried == CountTry(validation, t) IN
         IF MaxTriesExceeded(tried, config)
         THEN [entry |-> tried, result |-> FALSE]
         ELSE IF tried.code = code
              THEN [entry |-> [tried EXCEPT !.validated = TRUE], result |-> TRUE]
              ELSE [entry |-> tried, result |-> FALSE]

\* mutant of ValidateCodeIn: the entry is not looked up by type, the first
\* entry of the array is taken
ValidateCodeIn_AnyType(vs, type, code, config, t) ==
    IF Len(vs) = 0
    THEN [validations |-> vs, result |-> FALSE]
    ELSE LET out == ValidateEntry(vs[1], code, config, t) IN
         [validations |-> [vs EXCEPT ![1] = out.entry], result |-> out.result]

\* mutant of ValidateCodeIn: an expired entry is removed when it is met
ValidateCodeIn_SweepsExpired(vs, type, code, config, t) ==
    LET index == FindIndex(vs, type) IN
    IF index = 0
    THEN [validations |-> vs, result |-> FALSE]
    ELSE IF ~ vs[index].validated /\ IsExpired(vs[index], t)
    THEN [validations |-> Splice(vs, index), result |-> FALSE]
    ELSE LET out == ValidateEntry(vs[index], code, config, t) IN
         [validations |-> [vs EXCEPT ![index] = out.entry], result |-> out.result]

\* validateCode reaches `validation.code === code` on this entry
ReachesComparison(validation, config, t) ==
    /\ ~ validation.validated
    /\ ~ IsExpired(validation, t)
    /\ ~ MaxTriesExceeded(CountTry(validation, t), config)

\* mutant of ValidateCodeIn: the time of the attempt is written on every
\* entry of the array
ValidateCodeIn_StampsAll(vs, type, code, config, t) ==
    LET index == FindIndex(vs, type) IN
    IF index = 0
    THEN [validations |-> vs, result |-> FALSE]
    ELSE LET out == ValidateEntry(vs[index], code, config, t) IN
         [validations |->
              [i \in 1 .. Len(vs) |->
                  IF i = index THEN out.entry ELSE [vs[i] EXCEPT !.last_try = t]],
          result |-> out.result]

\* validateCode(type, code): the array afterwards and the value returned
ValidateCodeIn(vs, type, code, config, t) ==
    LET index == FindIndex(vs, type) IN
    IF index = 0
    THEN [validations |-> vs, result |-> FALSE]
    ELSE LET out == ValidateEntry(vs[index], code, config, t) IN
         [validations |-> [vs EXCEPT ![index] = out.entry], result |-> out.result]

-----------------------------------------------------------------------------
(* The pre-save hook *)

\* mutant of ValidationRequired: the negation of the switch is lost
ValidationRequired_Negated(config, type) ==
    CASE type = "email" -> ~ config.EMAIL_VALIDATION
      [] type = "phone" -> ~ config.PHONE_VALIDATION
      [] type = "identity" -> ~ config.IDENTITY_VALIDATION
      [] type = "address" -> ~ config.ADDRESS_VALIDATION

\* mutant of ValidationRequired: the address block reads the switch of the
\* identity block
ValidationRequired_CopyPaste(config, type) ==
    CASE type = "email" -> config.EMAIL_VALIDATION
      [] type = "phone" -> config.PHONE_VALIDATION
      [] type = "identity" -> config.IDENTITY_VALIDATION
      [] type = "address" -> config.IDENTITY_VALIDATION

\* the value of pluginConfig.<TYPE>_VALIDATION
ValidationRequired(config, type) ==
    CASE type = "email" -> config.EMAIL_VALIDATION
      [] type = "phone" -> config.PHONE_VALIDATION
      [] type = "identity" -> config.IDENTITY_VALIDATION
      [] type = "address" -> config.ADDRESS_VALIDATION

\* mutant of AutoValidate: the in-place change also clears the code and the
\* expiry, as for an entry created validated
AutoValidate_ClearsExpiry(st, type, config, t) ==
    IF ValidationRequired(config, type)
    THEN st
    ELSE LET index == FindIndex(st.validations, type) IN
         IF index = 0
         THEN [validations |->
                   Append(st.validations,
                          createValidation(type, NoOptions, TRUE, t, t, <<>>)),
               hasChanges |-> TRUE]
         ELSE IF ~ st.validations[index].validated
         THEN [validations |->
                   [st.validations EXCEPT ![index].validated = TRUE,
                                          ![index].code = <<>>,
                                          ![index].expire_at = Undefined],
               hasChanges |-> TRUE]
         ELSE st

\* mutant of AutoValidate: hasChanges is set for every type whose validation
\* is switched off, also when its entry is validated already
AutoValidate_AlwaysChanged(st, type, config, t) ==
    IF ValidationRequired(config, type)
    THEN st
    ELSE LET index == FindIndex(st.validations, type) IN
         IF index = 0
         THEN [validations |->
                   Append(st.validations,
                          createValidation(type, NoOptions, TRUE, t, t, <<>>)),
               hasChanges |-> TRUE]
         ELSE [validations |->
                   [st.validations EXCEPT ![index].validated = TRUE],
               hasChanges |-> TRUE]

\* mutant of AutoValidate: the in-place change does not set hasChanges
AutoValidate_SilentFlip(st, type, config, t) ==
    IF ValidationRequired(config, type)
    THEN st
    ELSE LET index == FindIndex(st.validations, type) IN
         IF index = 0
         THEN [validations |->
                   Append(st.validations,
                          createValidation(type, NoOptions, TRUE, t, t, <<>>)),
               hasChanges |-> TRUE]
         ELSE IF ~ st.validations[index].validated
         THEN [validations |->
                   [st.validations EXCEPT ![index].validated = TRUE],
               hasChanges |-> st.hasChanges]
         ELSE st

\* mutant of AutoValidate: a validated entry is pushed without looking for
\* an existing one
AutoValidate_AlwaysPush(st, type, config, t) ==
    IF ValidationRequired(config, type)
    THEN st
    ELSE [validations |->
              Append(st.validations,
                     createValidation(type, NoOptions, TRUE, t, t, <<>>)),
          hasChanges |-> TRUE]

\* mutant of AutoValidate: an unvalidated entry is replaced by a fresh
\* validated one, which clears its code and expiry
AutoValidate_Reset(st, type, config, t) ==
    IF ValidationRequired(config, type)
    THEN st
    ELSE LET index == FindIndex(st.validations, type) IN
         IF index = 0
         THEN [validations |->
                   Append(st.validations,
                          createValidation(type, NoOptions, TRUE, t, t, <<>>)),
               hasChanges |-> TRUE]
         ELSE IF ~ st.validations[index].validated
         THEN [validations |->
                   [st.validations EXCEPT
                       ![index] = createValidation(type, NoOptions, TRUE, t, t, <<>>)],
               hasChanges |-> TRUE]
         ELSE st

\* one `Auto-validate <type> if configured` block, on the local state
\* st = [validations, hasChanges] of the hook
AutoValidate(st, type, config, t) ==
    IF ValidationRequired(config, type)
    THEN st
    ELSE LET index == FindIndex(st.validations, type) IN
         IF index = 0
         THEN [validations |->
                   Append(st.validations,
                          createValidation(type, NoOptions, TRUE, t, t, <<>>)),
               hasChanges |-> TRUE]
         ELSE IF ~ st.validations[index].validated
         THEN [validations |->
                   [st.validations EXCEPT ![index].validated = TRUE],
               hasChanges |-> TRUE]
         ELSE st

\* the four blocks, in the order of the source
AutoValidateAll(vs, config, t) ==
    LET start == [validations |-> vs, hasChanges |-> FALSE]
        email == AutoValidate(start, "email", config, t)
        phone == AutoValidate(email, "phone", config, t)
        identity == AutoValidate(phone, "identity", config, t)
    IN  AutoValidate(identity, "address", config, t)

\* mutant of PreSave: next() of the disabled path is not returned, so the
\* hook runs on and reaches the final next() as well
PreSave_MissingReturn(present, vs, new, config, t) ==
    LET calls == IF config["ENABLED"] THEN 1 ELSE 2 IN
    IF new
    THEN LET out == AutoValidateAll(IF present THEN vs ELSE <<>>, config, t) IN
         [validations |-> IF present \/ out.hasChanges THEN out.validations ELSE vs,
          present |-> present \/ out.hasChanges,
          hasChanges |-> out.hasChanges,
          next |-> calls]
    ELSE [validations |-> vs, present |-> present, hasChanges |-> FALSE,
          next |-> calls]

\* mutant of PreSave: the master switch is not consulted
PreSave_IgnoreEnabled(present, vs, new, config, t) ==
    IF new
    THEN LET out == AutoValidateAll(IF present THEN vs ELSE <<>>, config, t) IN
         [validations |-> IF present \/ out.hasChanges THEN out.validations ELSE vs,
          present |-> present \/ out.hasChanges,
          hasChanges |-> out.hasChanges,
          next |-> 1]
    ELSE [validations |-> vs, present |-> present, hasChanges |-> FALSE, next |-> 1]

\* mutant of PreSave: the blocks run on every save, not only on the first
PreSave_IgnoreIsNew(present, vs, new, config, t) ==
    IF ~ config["ENABLED"]
    THEN [validations |-> vs, present |-> present, hasChanges |-> FALSE, next |-> 1]
    ELSE LET out == AutoValidateAll(IF present THEN vs ELSE <<>>, config, t) IN
         [validations |-> IF present \/ out.hasChanges THEN out.validations ELSE vs,
          present |-> present \/ out.hasChanges,
          hasChanges |-> out.hasChanges,
          next |-> 1]

\* schema.pre('save', ...) on a document: the array afterwards, whether
\* this.validations is defined afterwards, hasChanges, and the number of
\* times next() was called
PreSave(present, vs, new, config, t) ==
    IF ~ config["ENABLED"]
    THEN [validations |-> vs, present |-> present, hasChanges |-> FALSE, next |-> 1]
    ELSE IF new
    THEN LET out == AutoValidateAll(IF present THEN vs ELSE <<>>, config, t) IN
         \* entries that were found are changed in place, entries pushed on
         \* the local `[]` reach the document only through the assignment
         [validations |-> IF present \/ out.hasChanges THEN out.validations ELSE vs,
          present |-> present \/ out.hasChanges,
          hasChanges |-> out.hasChanges,
          next |-> 1]
    ELSE [validations |-> vs, present |-> present, hasChanges |-> FALSE, next |-> 1]

-----------------------------------------------------------------------------
(* Inputs of the calls *)

\* the type the caller passes to the methods in Spec
CallTypes == {"phone"}

\* ValidationOptions passed to createValidationRequest
OptionChoices ==
    {[NoOptions EXCEPT !.codeLength = 1, !.expiresIn = 1]}

\* milliseconds that pass between the two clock reads of createValidation;
\* in these runs both reads fall in the same millisecond
DriftChoices == {0}

\* ValidationOptions passed in SpecDefaults: none, an expiresIn of zero, and
\* two lengths
OptionChoicesDefaults ==
    {NoOptions,
     [NoOptions EXCEPT !.codeLength = 1, !.expiresIn = 0],
     [NoOptions EXCEPT !.codeLength = 1, !.expiresIn = 1],
     [NoOptions EXCEPT !.codeLength = 2, !.expiresIn = 1]}

\* ValidationOptions passed in SpecRequests: without and with the
\* per-request ceilings, below and above the ceiling of the configuration
OptionChoicesRequests ==
    {[NoOptions EXCEPT !.codeLength = 1, !.expiresIn = 1],
     [NoOptions EXCEPT !.codeLength = 1, !.expiresIn = 1,
                       !.maxTries = 1, !.maxResends = 1],
     [NoOptions EXCEPT !.codeLength = 1, !.expiresIn = 1,
                       !.maxTries = 3, !.maxResends = 3]}

\* in SpecDefaults the second clock read may fall in the next millisecond
DriftChoicesDefaults == {0, 1}

\* strings submitted besides the code of the entry itself
WrongCodes == {<<>>, <<"9">>}

\* the code of the entry of `type`, when there is one
CodesOf(type) ==
    {validations[i].code : i \in {j \in 1 .. Len(validations) :
                                      validations[j].type = type}}

\* a type outside ValidationType, as a caller without the compile-time types
\* can pass it: the annotation `type: ValidationType` is erased in the build
UnknownTypes == {"username"}

\* the callers that work on the same stored document, each on its own copy
Callers == {1, 2}

\* a caller that holds no copy of the document
NotLoaded == "none"

\* metadata attached by the caller
MetadataChoices == {"passport"}

\* seconds by which the clock advances
TickSeconds == {1, 2}

-----------------------------------------------------------------------------
(* The state machine *)

\* ret before any call: `before` and `wasPresent` are this.validations as
\* the last call found it
NoCall ==
    [op |-> "new", type |-> "", code |-> <<>>, options |-> NoOptions,
     result |-> FALSE, hasChanges |-> FALSE, next |-> 0,
     before |-> <<>>, wasPresent |-> FALSE, wasNew |-> TRUE, at |-> 0,
     threw |-> FALSE,
     requested |-> NoOptions, requestedFor |-> ""]

\* ret of a call that starts in the current state; requested and
\* requestedFor keep the options and the type of the latest
\* createValidationRequest
Call(op, type) ==
    [NoCall EXCEPT !.op = op, !.type = type, !.before = validations,
                   !.wasPresent = hasValidations, !.wasNew = isNew, !.at = now,
                   !.requested = ret.requested,
                   !.requestedFor = ret.requestedFor]

\* a document just constructed, under the configuration `config`
NewDocument(config) ==
    /\ validations = <<>>
    /\ hasValidations \in BOOLEAN
    /\ isNew = TRUE
    /\ now = 0
    /\ pluginConfig = MergeConfig(config)
    /\ ret = NoCall
    /\ nOps = 0
    /\ nTicks = 0
    /\ loaded = [caller \in Callers |-> NotLoaded]
    /\ evaluated = 0

Init == \E config \in ConfigChoices : NewDocument(config)

InitWide == \E config \in ConfigChoicesWide : NewDocument(config)

\* mutant of CreateValidationRequestAt: the per-request maxTries is written
\* into the configuration of the plugin
CreateValidationRequestAt_OverridesConfig(type, options, drift) ==
    /\ \E draws \in RandomDraws(CodeLengthOf(options)) :
          LET newValidation ==
                  createValidation(type, options, FALSE, now, now + drift, draws)
          IN  /\ validations' =
                     RequestValidations(CurrentValidations, type, newValidation)
              /\ now' = now + drift
    /\ hasValidations' = TRUE
    /\ ret' = [Call("createValidationRequest", type) EXCEPT
                   !.options = options,
                   !.requested = options,
                   !.requestedFor = type]
    /\ nOps' = nOps + 1
    /\ pluginConfig' =
           IF options.maxTries = Undefined
           THEN pluginConfig
           ELSE [pluginConfig EXCEPT !.MAX_TRIES = options.maxTries]
    /\ UNCHANGED <<isNew, nTicks, loaded, evaluated>>

\* doc.createValidationRequest(type, options), with `drift` milliseconds
\* between the clock read of createValidation and that of calculateExpiry
CreateValidationRequestAt(type, options, drift) ==
    /\ \E draws \in RandomDraws(CodeLengthOf(options)) :
          LET newValidation ==
                  createValidation(type, options, FALSE, now, now + drift, draws)
          IN  /\ validations' =
                     RequestValidations(CurrentValidations, type, newValidation)
              /\ now' = now + drift
    /\ hasValidations' = TRUE
    /\ ret' = [Call("createValidationRequest", type) EXCEPT
                   !.options = options,
                   !.requested = options,
                   !.requestedFor = type]
    /\ nOps' = nOps + 1
    /\ UNCHANGED <<isNew, pluginConfig, nTicks, loaded, evaluated>>

\* doc.createValidationRequest(type, options)
CreateValidationRequest(type, options) ==
    \E drift \in DriftChoices : CreateValidationRequestAt(type, options, drift)

\* doc.validateCode(type, code)
ValidateCode(type, code) ==
    /\ LET out == ValidateCodeIn(CurrentValidations, type, code, pluginConfig, now)
       IN  /\ validations' = IF hasValidations THEN out.validations ELSE validations
           /\ ret' = [Call("validateCode", type) EXCEPT !.code = code,
                                                        !.result = out.result]
    /\ nOps' = nOps + 1
    /\ UNCHANGED <<hasValidations, isNew, now, pluginConfig, nTicks, loaded, evaluated>>

\* doc.isValidated(type), also behind the virtual getters <type>_validated
IsValidated(type) ==
    /\ ret' = [Call("isValidated", type) EXCEPT !.result = isValidated(type)]
    /\ nOps' = nOps + 1
    /\ UNCHANGED <<validations, hasValidations, isNew, now, pluginConfig, nTicks, loaded, evaluated>>

\* doc.save(): the pre-save hook runs; when the save then succeeds the
\* document is no longer new
Save(persisted) ==
    /\ LET out == PreSave(hasValidations, validations, isNew, pluginConfig, now)
       IN  /\ validations' = out.validations
           /\ hasValidations' = out.present
           /\ ret' = [Call("save", "") EXCEPT !.result = persisted,
                                              !.hasChanges = out.hasChanges,
                                              !.next = out.next]
    /\ isNew' = (isNew /\ ~ persisted)
    /\ nOps' = nOps + 1
    /\ UNCHANGED <<now, pluginConfig, nTicks, loaded, evaluated>>

\* the caller attaches metadata to the entry of `type`
SetMetadata(type, metadata) ==
    /\ hasValidations
    /\ FindIndex(validations, type) # 0
    /\ validations' =
           [validations EXCEPT ![FindIndex(validations, type)].metadata = metadata]
    /\ ret' = Call("setMetadata", type)
    /\ nOps' = nOps + 1
    /\ UNCHANGED <<hasValidations, isNew, now, pluginConfig, nTicks, loaded, evaluated>>

\* time passes between two calls
Tick(seconds) ==
    /\ nTicks < MaxTicks
    /\ now' = now + (seconds * 1000)
    /\ nTicks' = nTicks + 1
    /\ UNCHANGED <<validations, hasValidations, isNew, pluginConfig, ret, nOps,
                 loaded, evaluated>>

Next ==
    \/ \E type \in CallTypes, options \in OptionChoices :
          nOps < MaxOps /\ CreateValidationRequest(type, options)
    \/ \E type \in CallTypes :
          \E code \in CodesOf(type) \cup WrongCodes :
             nOps < MaxOps /\ ValidateCode(type, code)
    \/ \E type \in CallTypes : nOps < MaxOps /\ IsValidated(type)
    \/ \E persisted \in BOOLEAN : nOps < MaxOps /\ Save(persisted)
    \/ \E type \in CallTypes, metadata \in MetadataChoices :
          nOps < MaxOps /\ SetMetadata(type, metadata)
    \/ \E seconds \in TickSeconds : Tick(seconds)

Spec == Init /\ [][Next]_vars

\* requests, submissions and saves on every type, in shorter runs made at
\* one instant
NextWide ==
    \/ \E type \in ValidationType, options \in OptionChoices :
          nOps < MaxOpsWide /\ CreateValidationRequest(type, options)
    \/ \E type \in ValidationType :
          \E code \in CodesOf(type) \cup WrongCodes :
             nOps < MaxOpsWide /\ ValidateCode(type, code)
    \/ \E persisted \in BOOLEAN : nOps < MaxOpsWide /\ Save(persisted)

SpecWide == InitWide /\ [][NextWide]_vars

\* the methods called with any string as type, on a document not yet saved
NextUnknown ==
    \/ \E type \in CallTypes \cup UnknownTypes, options \in OptionChoices :
          nOps < MaxOpsWide /\ CreateValidationRequest(type, options)
    \/ \E type \in CallTypes \cup UnknownTypes :
          \E code \in CodesOf(type) \cup WrongCodes :
             nOps < MaxOpsWide /\ ValidateCode(type, code)
    \/ \E type \in CallTypes \cup UnknownTypes :
          nOps < MaxOpsWide /\ IsValidated(type)

SpecUnknown == Init /\ [][NextUnknown]_vars

InitDefaults == \E config \in ConfigChoicesDefaults : NewDocument(config)

\* the first request for a type on a fresh document, with and without
\* options, and the submissions that follow it
NextDefaults ==
    \/ \E type \in CallTypes, options \in OptionChoicesDefaults :
          \E drift \in DriftChoicesDefaults :
             /\ nOps < MaxOpsDefaults
             /\ FindIndex(CurrentValidations, type) = 0
             /\ CreateValidationRequestAt(type, options, drift)
    \/ \E type \in CallTypes :
          \E code \in CodesOf(type) \cup WrongCodes :
             nOps < MaxOpsDefaults /\ ValidateCode(type, code)
    \/ \E seconds \in TickSeconds : Tick(seconds)

SpecDefaults == InitDefaults /\ [][NextDefaults]_vars

\* a persisted document that holds one requested entry, and no caller at
\* work on it yet
InitWriters ==
    \E draws \in RandomDraws(1) :
       /\ validations =
              <<createValidation("phone",
                                 [NoOptions EXCEPT !.codeLength = 1, !.expiresIn = 1],
                                 FALSE, 0, 0, draws)>>
       /\ hasValidations = TRUE
       /\ isNew = FALSE
       /\ now = 0
       /\ pluginConfig = MergeConfig([MAX_TRIES |-> 1])
       /\ ret = NoCall
       /\ nOps = 0
       /\ nTicks = 0
       /\ loaded = [caller \in Callers |-> NotLoaded]
       /\ evaluated = 0

\* const user = await User.findById(userId): the caller gets its own copy of
\* the stored array
FindById(caller) ==
    /\ loaded[caller] = NotLoaded
    /\ loaded' = [loaded EXCEPT ![caller] = validations]
    /\ UNCHANGED <<validations, hasValidations, isNew, now, pluginConfig, ret,
                   nOps, nTicks, evaluated>>

\* user.validateCode(type, code) on the copy of the caller
ValidateCodeBy(caller, type, code) ==
    /\ loaded[caller] # NotLoaded
    /\ LET vs == loaded[caller]
           index == FindIndex(vs, type)
           out == ValidateCodeIn(vs, type, code, pluginConfig, now)
       IN  /\ loaded' = [loaded EXCEPT ![caller] = out.validations]
           /\ ret' = [Call("validateCode", type) EXCEPT !.before = vs,
                                                        !.code = code,
                                                        !.result = out.result]
           /\ evaluated' =
                  IF index # 0 /\ ReachesComparison(vs[index], pluginConfig, now)
                  THEN evaluated + 1
                  ELSE evaluated
    /\ nOps' = nOps + 1
    /\ UNCHANGED <<validations, hasValidations, isNew, now, pluginConfig, nTicks>>

\* mutant of SaveBy: the stored count of attempts is kept when it is higher
\* than the one of the copy
SaveBy_KeepsHigherCount(caller) ==
    /\ loaded[caller] # NotLoaded
    /\ validations' =
           [i \in 1 .. Len(loaded[caller]) |->
               IF i <= Len(validations)
                  /\ validations[i].type = loaded[caller][i].type
                  /\ validations[i].tries > loaded[caller][i].tries
               THEN [loaded[caller][i] EXCEPT !.tries = validations[i].tries]
               ELSE loaded[caller][i]]
    /\ ret' = [Call("save", "") EXCEPT !.before = loaded[caller],
                                       !.result = TRUE,
                                       !.next = 1]
    /\ loaded' = [loaded EXCEPT ![caller] = NotLoaded]
    /\ UNCHANGED <<hasValidations, isNew, now, pluginConfig, nOps, nTicks,
                   evaluated>>

\* await user.save() by the caller: the pre-save hook runs on its copy and
\* the copy replaces what is stored
SaveBy(caller) ==
    /\ loaded[caller] # NotLoaded
    /\ LET out == PreSave(TRUE, loaded[caller], isNew, pluginConfig, now)
       IN  /\ validations' = out.validations
           /\ ret' = [Call("save", "") EXCEPT !.before = loaded[caller],
                                              !.result = TRUE,
                                              !.hasChanges = out.hasChanges,
                                              !.next = out.next]
    /\ loaded' = [loaded EXCEPT ![caller] = NotLoaded]
    /\ UNCHANGED <<hasValidations, isNew, now, pluginConfig, nOps, nTicks,
                   evaluated>>

\* verifyTwoFactorAuth run by two callers at once: the steps of one caller
\* interleave with the steps of the other at each await
NextWriters ==
    \/ \E caller \in Callers : FindById(caller)
    \/ \E caller \in Callers, type \in CallTypes :
          \E code \in CodesOf(type) \cup WrongCodes :
             nOps < MaxOps /\ ValidateCodeBy(caller, type, code)
    \/ \E caller \in Callers : SaveBy(caller)

SpecWriters == InitWriters /\ [][NextWriters]_vars

InitRequests == \E config \in ConfigChoicesRequests : NewDocument(config)

\* repeated requests for one type, with per-request ceilings, the
\* submissions between them and the saves
NextRequests ==
    \/ \E type \in CallTypes, options \in OptionChoicesRequests :
          nOps < MaxOps /\ CreateValidationRequest(type, options)
    \/ \E type \in CallTypes :
          \E code \in CodesOf(type) \cup WrongCodes :
             nOps < MaxOps /\ ValidateCode(type, code)
    \/ \E persisted \in BOOLEAN : nOps < MaxOps /\ Save(persisted)

SpecRequests == InitRequests /\ [][NextRequests]_vars

-----------------------------------------------------------------------------
(* Reading a state: the call just made (ret), the array it found          *)
(* (ret.before) and the array it left (validations).                       *)

HasEntry(vs, type) == FindIndex(vs, type) # 0

EntryOf(vs, type) == vs[FindIndex(vs, type)]

\* the number of entries of `type` in the array
CountOf(vs, type) == Cardinality({i \in 1 .. Len(vs) : vs[i].type = type})

Called(op) == ret.op = op

\* the last call was validateCode and found an entry of its type
Submitted == Called("validateCode") /\ HasEntry(ret.before, ret.type)

\* that entry, before and after the call
Found == EntryOf(ret.before, ret.type)

Left == EntryOf(validations, ret.type)

\* the entry is past its expiry at time t
PastExpiry(entry, t) == entry.expire_at # Undefined /\ t > entry.expire_at

\* the switch <TYPE>_VALIDATION of the configuration in force
Required(type) ==
    pluginConfig[CASE type = "email" -> "EMAIL_VALIDATION"
                   [] type = "phone" -> "PHONE_VALIDATION"
                   [] type = "identity" -> "IDENTITY_VALIDATION"
                   [] type = "address" -> "ADDRESS_VALIDATION"]

\* an entry as createValidationRequest leaves it and no submission has
\* counted against it since
Untried(entry) == entry.expire_at # Undefined /\ entry.tries = 0

-----------------------------------------------------------------------------
(* Claims *)

\* the strings made of decimal digits only
IsDigits(code) ==
    \A i \in 1 .. Len(code) :
       code[i] \in {"0", "1", "2", "3", "4", "5", "6", "7", "8", "9"}

\* the entry a createValidationRequest has just pushed
Issued == EntryOf(validations, ret.type)

\* a createValidationRequest with a positive codeLength and expiresIn
IssuedWithOptions ==
    /\ Called("createValidationRequest")
    /\ ret.options.codeLength > 0
    /\ ret.options.expiresIn > 0

\* the type was validated before the last call / is validated now
WasValidated(type) ==
    ret.wasPresent /\ HasEntry(ret.before, type) /\ EntryOf(ret.before, type).validated

IsNowValidated(type) ==
    hasValidations /\ HasEntry(validations, type) /\ EntryOf(validations, type).validated

\* C1: round trip. When validateCode(k, c) is the first submission counted
\* against the entry that createValidationRequest(k) returned, c is that
\* entry's code, the clock is not past expire_at and MAX_TRIES >= 1, the
\* call returns true and isValidated(k) is true afterwards.
C1_RoundTrip ==
    (/\ Submitted
     /\ Untried(Found)
     /\ ret.code = Found.code
     /\ ret.at <= Found.expire_at
     /\ pluginConfig.MAX_TRIES >= 1)
    => (ret.result /\ isValidated(ret.type))

C1_Witness ==
    /\ Submitted
    /\ Untried(Found)
    /\ ~ Found.validated
    /\ ret.code = Found.code
    /\ ret.at = Found.expire_at
    /\ pluginConfig.MAX_TRIES >= 1
    /\ ret.result
    /\ isValidated(ret.type)

\* C2: attempt ceiling. With MAX_TRIES = n, on an unvalidated, unexpired
\* entry: after n-1 counted (failed) submissions the n-th succeeds when it
\* carries the code; after n counted submissions the next one returns false
\* whatever it carries, and tries becomes n+1.
C2_AttemptCeiling ==
    (/\ Submitted
     /\ ~ Found.validated
     /\ ~ PastExpiry(Found, ret.at))
    => /\ (Found.tries = pluginConfig.MAX_TRIES - 1 /\ ret.code = Found.code)
              => (ret.result /\ Left.validated)
       /\ Found.tries = pluginConfig.MAX_TRIES
              => (~ ret.result /\ ~ Left.validated
                  /\ Left.tries = pluginConfig.MAX_TRIES + 1)

C2_Witness ==
    /\ Submitted
    /\ ~ Found.validated
    /\ ~ PastExpiry(Found, ret.at)
    /\ pluginConfig.MAX_TRIES >= 1
    /\ Found.tries = pluginConfig.MAX_TRIES
    /\ ret.code = Found.code
    /\ ~ ret.result
    /\ Left.tries = pluginConfig.MAX_TRIES + 1

\* C3: idempotence after success. Once an entry is validated, every
\* validateCode on its type returns true and leaves the whole array as it
\* was, whatever string is submitted and however late; and no call other
\* than createValidationRequest on that type takes the validation back or
\* touches tries and last_try.
C3_IdempotentAfterSuccess ==
    /\ (Submitted /\ Found.validated)
           => (ret.result /\ validations = ret.before)
    /\ \A type \in ValidationType :
          (/\ ~ Called("new")
           /\ HasEntry(ret.before, type)
           /\ EntryOf(ret.before, type).validated
           /\ ~ (Called("createValidationRequest") /\ ret.type = type))
          => /\ HasEntry(validations, type)
             /\ EntryOf(validations, type).validated
             /\ EntryOf(validations, type).tries = EntryOf(ret.before, type).tries
             /\ EntryOf(validations, type).last_try
                    = EntryOf(ret.before, type).last_try

C3_Witness ==
    /\ Submitted
    /\ Found.validated
    /\ Found.tries >= 1
    /\ PastExpiry(Found, ret.at)
    /\ ret.code # Found.code
    /\ ret.result

\* C4: expiry. On an unvalidated entry whose expire_at is set and behind the
\* clock, validateCode returns false whatever is submitted and leaves the
\* array (tries, last_try, validated) as it was.
C4_ExpiredSubmission ==
    (/\ Submitted
     /\ ~ Found.validated
     /\ PastExpiry(Found, ret.at))
    => (~ ret.result /\ validations = ret.before)

C4_Witness ==
    /\ Submitted
    /\ ~ Found.validated
    /\ PastExpiry(Found, ret.at)
    /\ ret.code = Found.code
    /\ ~ ret.result
    /\ Left.tries = 0

\* C5: isValidated(k) is true exactly when the array is defined and holds an
\* entry of type k that is validated; it changes nothing.
C5_IsValidated ==
    Called("isValidated")
    => /\ ret.result
              <=> (/\ hasValidations
                   /\ \E i \in 1 .. Len(validations) :
                         /\ validations[i].type = ret.type
                         /\ validations[i].validated)
       /\ validations = ret.before
       /\ hasValidations = ret.wasPresent

C5_Witness ==
    /\ Called("isValidated")
    /\ ret.result
    /\ HasEntry(validations, ret.type)
    /\ Len(validations) >= 2

\* C6: right after createValidationRequest(k) the entry of k is not
\* validated and isValidated(k) is false, whatever the array held before
\* and whatever the configuration.
C6_RequestIsUnconfirmed ==
    Called("createValidationRequest")
    => /\ hasValidations
       /\ HasEntry(validations, ret.type)
       /\ ~ EntryOf(validations, ret.type).validated
       /\ ~ isValidated(ret.type)

C6_Witness ==
    /\ Called("createValidationRequest")
    /\ HasEntry(ret.before, ret.type)
    /\ EntryOf(ret.before, ret.type).validated
    /\ EntryOf(ret.before, ret.type).expire_at = Undefined
    /\ ~ Required(ret.type)
    /\ ~ isValidated(ret.type)

\* C7: replacement. createValidationRequest(k) on an array that holds an
\* entry of k leaves exactly one entry of k, and it is fresh: tries 0,
\* resends 0, no last_try, no metadata, not validated.
C7_Replacement ==
    (Called("createValidationRequest") /\ HasEntry(ret.before, ret.type))
    => /\ CountOf(validations, ret.type) = 1
       /\ Left.tries = 0
       /\ Left.resends = 0
       /\ Left.last_try = Undefined
       /\ Left.metadata = NoMetadata
       /\ ~ Left.validated
       /\ Left.created = ret.at

C7_Witness ==
    /\ Called("createValidationRequest")
    /\ HasEntry(ret.before, ret.type)
    /\ EntryOf(ret.before, ret.type).tries >= 1
    /\ EntryOf(ret.before, ret.type).last_try # Undefined
    /\ Left.tries = 0

\* C8: uniqueness. In every state reached from a new document by
\* createValidationRequest, validateCode and save on any types, the array
\* holds at most one entry of each type.
C8_OneEntryPerType ==
    \A type \in ValidationType : CountOf(validations, type) <= 1

C8_Witness ==
    /\ Called("createValidationRequest")
    /\ HasEntry(ret.before, ret.type)
    /\ Len(ret.before) >= 2
    /\ Len(validations) = Len(ret.before)

\* C9: auto-validation on creation. With ENABLED true and <K>_VALIDATION
\* false, the pre-save hook of a new document that holds no entry of K
\* leaves an entry of K with validated true, code "", no expire_at, tries 0
\* and resends 0, so isValidated(K) is true afterwards.
C9_AutoValidateAppends ==
    \A type \in ValidationType :
       (/\ Called("save")
        /\ ret.wasNew
        /\ pluginConfig["ENABLED"]
        /\ ~ Required(type)
        /\ ~ HasEntry(ret.before, type))
       => /\ HasEntry(validations, type)
          /\ EntryOf(validations, type).validated
          /\ EntryOf(validations, type).code = <<>>
          /\ EntryOf(validations, type).expire_at = Undefined
          /\ EntryOf(validations, type).tries = 0
          /\ EntryOf(validations, type).resends = 0
          /\ isValidated(type)

C9_Witness ==
    /\ Called("save")
    /\ ret.wasNew
    /\ pluginConfig["ENABLED"]
    /\ ~ Required("address")
    /\ Required("identity")
    /\ ~ HasEntry(ret.before, "address")
    /\ Len(ret.before) >= 1
    /\ isValidated("address")

\* C10: when the pre-save hook of a new document finds an unvalidated entry
\* of a type whose validation is switched off, it sets validated and leaves
\* every other field of the entry, and its place in the array, as they
\* were, also when the entry is expired or past MAX_TRIES.
C10_AutoValidateFlipsInPlace ==
    \A type \in ValidationType :
       (/\ Called("save")
        /\ ret.wasNew
        /\ pluginConfig["ENABLED"]
        /\ ~ Required(type)
        /\ HasEntry(ret.before, type)
        /\ ~ EntryOf(ret.before, type).validated)
       => /\ FindIndex(validations, type) = FindIndex(ret.before, type)
          /\ EntryOf(validations, type)
                 = [EntryOf(ret.before, type) EXCEPT !.validated = TRUE]

C10_Witness ==
    /\ Called("save")
    /\ ret.wasNew
    /\ pluginConfig["ENABLED"]
    /\ ~ Required("phone")
    /\ HasEntry(ret.before, "phone")
    /\ ~ EntryOf(ret.before, "phone").validated
    /\ EntryOf(ret.before, "phone").tries > pluginConfig.MAX_TRIES
    /\ EntryOf(validations, "phone").validated
    /\ EntryOf(validations, "phone").code # <<>>

\* C11: master switch. With ENABLED false the pre-save hook leaves the array
\* as it was, appends nothing, changes no entry and sets no hasChanges,
\* whatever the four switches are.
C11_MasterSwitch ==
    (Called("save") /\ ~ pluginConfig["ENABLED"])
    => /\ validations = ret.before
       /\ hasValidations = ret.wasPresent
       /\ ~ ret.hasChanges

C11_Witness ==
    /\ Called("save")
    /\ ~ pluginConfig["ENABLED"]
    /\ ret.wasNew
    /\ \E type \in ValidationType :
          /\ ~ Required(type)
          /\ HasEntry(ret.before, type)
          /\ ~ EntryOf(validations, type).validated
    /\ \E type \in ValidationType :
          ~ Required(type) /\ ~ HasEntry(validations, type)

\* C12: the hook acts on new documents only. On a document that is not new
\* the hook leaves the array as it was under every configuration, also when
\* a type whose validation is switched off has an unvalidated entry.
C12_OnlyNewDocuments ==
    (Called("save") /\ ~ ret.wasNew)
    => /\ validations = ret.before
       /\ hasValidations = ret.wasPresent
       /\ ~ ret.hasChanges

C12_Witness ==
    /\ Called("save")
    /\ ~ ret.wasNew
    /\ pluginConfig["ENABLED"]
    /\ ~ Required("phone")
    /\ HasEntry(ret.before, "phone")
    /\ ~ EntryOf(validations, "phone").validated

\* C13: the hook never touches a type whose validation is required: the
\* entry of such a type, or its absence, is the same before and after; when
\* all four are required the whole array is as it was.
C13_RequiredTypesUntouched ==
    Called("save")
    => /\ \A type \in ValidationType :
             Required(type)
             => /\ HasEntry(validations, type) <=> HasEntry(ret.before, type)
                /\ HasEntry(ret.before, type)
                      => EntryOf(validations, type) = EntryOf(ret.before, type)
       /\ (\A type \in ValidationType : Required(type))
             => (validations = ret.before /\ hasValidations = ret.wasPresent)

C13_Witness ==
    /\ Called("save")
    /\ ret.wasNew
    /\ pluginConfig["ENABLED"]
    /\ ret.hasChanges
    /\ \E type \in ValidationType :
          /\ Required(type)
          /\ HasEntry(ret.before, type)
          /\ ~ EntryOf(validations, type).validated
    /\ \E type \in ValidationType :
          Required(type) /\ ~ HasEntry(validations, type)

\* C14: hasChanges of the hook is true exactly when the hook changed the
\* array (pushed a validated entry or set validated on an entry); when no
\* switched-off type is missing or unvalidated it is false and the array is
\* as it was.
C14_HasChangesIffMutated ==
    Called("save")
    => /\ ret.hasChanges <=> validations # ret.before
       /\ ~ ret.hasChanges => hasValidations = ret.wasPresent
       /\ (\A type \in ValidationType :
              Required(type)
              \/ (HasEntry(ret.before, type) /\ EntryOf(ret.before, type).validated))
             => ~ ret.hasChanges

C14_Witness ==
    /\ Called("save")
    /\ ret.hasChanges
    /\ Len(validations) = Len(ret.before)
    /\ validations # ret.before

\* C15: validateCode for a type that has no entry, also when the array is
\* empty or absent, returns false and leaves the array as it was: no entry
\* is created and no entry of another type is touched.
C15_NoEntry ==
    (Called("validateCode") /\ ~ HasEntry(ret.before, ret.type))
    => /\ ~ ret.result
       /\ validations = ret.before
       /\ hasValidations = ret.wasPresent

C15_Witness ==
    /\ Called("validateCode")
    /\ ~ HasEntry(ret.before, ret.type)
    /\ \E type \in ValidationType :
          /\ HasEntry(ret.before, type)
          /\ ~ EntryOf(ret.before, type).validated
          /\ EntryOf(validations, type).tries = 0
    /\ ret.code # <<>>
    /\ ~ ret.result

\* C16: a wrong code on an entry that is neither validated nor expired
\* returns false, adds one to tries, sets last_try to the time of the call,
\* leaves validated false and changes nothing else of the entry (code and
\* expire_at included), whatever tries was.
C16_WrongCode ==
    (/\ Submitted
     /\ ~ Found.validated
     /\ ~ PastExpiry(Found, ret.at)
     /\ ret.code # Found.code)
    => /\ ~ ret.result
       /\ Left = [Found EXCEPT !.tries = Found.tries + 1, !.last_try = ret.at]
       /\ ~ Left.validated
       /\ Left.code = Found.code
       /\ Left.expire_at = Found.expire_at

C16_Witness ==
    /\ Submitted
    /\ ~ Found.validated
    /\ ~ PastExpiry(Found, ret.at)
    /\ ret.code # Found.code
    /\ Found.last_try # Undefined
    /\ ret.at > Found.last_try
    /\ Left.tries = Found.tries + 1
    /\ Left.last_try = ret.at

\* C17: a validateCode that succeeds on an unvalidated entry changes exactly
\* validated (to true), tries (plus one) and last_try (the time of the call);
\* code and expire_at stay as they were, and so does every other entry.
C17_SuccessKeepsCode ==
    (/\ Submitted
     /\ ~ Found.validated
     /\ ret.result)
    => /\ Left = [Found EXCEPT !.validated = TRUE,
                               !.tries = Found.tries + 1,
                               !.last_try = ret.at]
       /\ validations
             = [ret.before EXCEPT ![FindIndex(ret.before, ret.type)] = Left]

C17_Witness ==
    /\ Submitted
    /\ ~ Found.validated
    /\ ret.result
    /\ Left.validated
    /\ Left.code # <<>>
    /\ Left.code = Found.code
    /\ Left.expire_at # Undefined

\* C18: tries of an entry never goes down: over every call other than
\* createValidationRequest on its type the entry is still there and its
\* tries is at least what it was.
C18_TriesMonotonic ==
    \A type \in ValidationType :
       (/\ ~ Called("new")
        /\ HasEntry(ret.before, type)
        /\ ~ (Called("createValidationRequest") /\ ret.type = type))
       => /\ HasEntry(validations, type)
          /\ EntryOf(validations, type).tries >= EntryOf(ret.before, type).tries

C18_Witness ==
    /\ Submitted
    /\ ~ Found.validated
    /\ Found.tries >= 1
    /\ ret.result
    /\ Left.tries > Found.tries

\* C19: permanent rejection. On an unvalidated entry whose tries has reached
\* MAX_TRIES, validateCode returns false whatever is submitted, counts the
\* attempt when the entry is not expired, and leaves the entry unvalidated
\* with tries at or above MAX_TRIES; only createValidationRequest on the type
\* or the pre-save hook ends this.
C19_PermanentRejection ==
    /\ (/\ Submitted
        /\ ~ Found.validated
        /\ Found.tries >= pluginConfig.MAX_TRIES)
       => /\ ~ ret.result
          /\ ~ Left.validated
          /\ Left.tries >= pluginConfig.MAX_TRIES
          /\ ~ PastExpiry(Found, ret.at) => Left.tries = Found.tries + 1
    /\ \A type \in ValidationType :
          (/\ ~ Called("new")
           /\ ~ Called("save")
           /\ ~ (Called("createValidationRequest") /\ ret.type = type)
           /\ HasEntry(ret.before, type)
           /\ ~ EntryOf(ret.before, type).validated
           /\ EntryOf(ret.before, type).tries >= pluginConfig.MAX_TRIES)
          => /\ HasEntry(validations, type)
             /\ ~ EntryOf(validations, type).validated
             /\ EntryOf(validations, type).tries >= pluginConfig.MAX_TRIES

C19_Witness ==
    /\ Submitted
    /\ ~ Found.validated
    /\ Found.tries > pluginConfig.MAX_TRIES
    /\ ~ PastExpiry(Found, ret.at)
    /\ ret.code = Found.code
    /\ ~ ret.result
    /\ Left.tries = Found.tries + 1

\* C20: a type outside email, phone, identity, address. As stated:
\* createValidationRequest and validateCode called with such a type raise an
\* error and leave the array as it was; they neither return false nor push
\* an entry of that type.
C20_UnknownTypeRejected ==
    (/\ Called("createValidationRequest") \/ Called("validateCode")
     /\ ret.type \notin ValidationType)
    => /\ ret.threw
       /\ validations = ret.before
       /\ hasValidations = ret.wasPresent

\* C21: default fallbacks. As stated: a createValidationRequest without
\* codeLength and expiresIn, on a plugin configured with DEFAULT_CODE_LENGTH
\* = L and DEFAULT_EXPIRY = T, yields a code of exactly L digits and an
\* expire_at T seconds after the time of the request (a clock read made
\* during the call).
C21_ConfiguredDefaults ==
    (/\ Called("createValidationRequest")
     /\ ret.options.codeLength = Undefined
     /\ ret.options.expiresIn = Undefined)
    => /\ Len(EntryOf(validations, ret.type).code)
             = pluginConfig.DEFAULT_CODE_LENGTH
       /\ EntryOf(validations, ret.type).expire_at
             - (pluginConfig.DEFAULT_EXPIRY * 1000) \in ret.at .. now

\* C22: createValidation with options. As stated: with codeLength L > 0 and
\* expiresIn T > 0 the entry has the given type, validated false, a code of
\* exactly L decimal digits, expire_at = created + T seconds, tries 0,
\* resends 0, and neither last_try nor metadata.
C22_BuildEntryExact ==
    IssuedWithOptions
    => /\ Issued.type = ret.type
       /\ ~ Issued.validated
       /\ Len(Issued.code) = ret.options.codeLength
       /\ IsDigits(Issued.code)
       /\ Issued.expire_at = Issued.created + (ret.options.expiresIn * 1000)
       /\ Issued.tries = 0
       /\ Issued.resends = 0
       /\ Issued.last_try = Undefined
       /\ Issued.metadata = NoMetadata

\* C22, amended: the same, except that expire_at is T seconds after a second
\* reading of the clock: it is at least created + T seconds and at most the
\* time at which the call returns + T seconds.
C22_BuildEntry ==
    IssuedWithOptions
    => /\ Issued.type = ret.type
       /\ ~ Issued.validated
       /\ Len(Issued.code) = ret.options.codeLength
       /\ IsDigits(Issued.code)
       /\ Issued.created = ret.at
       /\ Issued.expire_at - (ret.options.expiresIn * 1000)
             \in Issued.created .. now
       /\ Issued.tries = 0
       /\ Issued.resends = 0
       /\ Issued.last_try = Undefined
       /\ Issued.metadata = NoMetadata

C22_Witness ==
    /\ IssuedWithOptions
    /\ Len(Issued.code) = 2
    /\ Issued.code[1] # Issued.code[2]
    /\ Issued.expire_at > Issued.created + (ret.options.expiresIn * 1000)

\* C23: an expiresIn of zero. As stated: calculateExpiry with 0 yields the
\* time of the clock read itself, and an entry requested with expiresIn = 0
\* has expire_at at the time of its request (a clock read made during the
\* call), not DEFAULT_EXPIRY later, so that a validateCode made after the
\* millisecond of the request returns false.
C23_ZeroExpiry ==
    /\ calculateExpiry(0, now) = now
    /\ (Called("createValidationRequest") /\ ret.options.expiresIn = 0)
          => Issued.expire_at \in ret.at .. now
    /\ (/\ Submitted
        /\ ~ Found.validated
        /\ ret.requestedFor = ret.type
        /\ ret.requested.expiresIn = 0
        /\ ret.at > Found.created + 1)
       => ~ ret.result

\* C24: generateValidationCode. The code of every entry that
\* createValidationRequest pushes has exactly the length handed to
\* generateValidationCode (codeLength when it is given and not zero,
\* otherwise 6), and each of its characters is a decimal digit, whatever
\* Math.random() returned.
C24_GenerateCode ==
    Called("createValidationRequest")
    => /\ Len(Issued.code)
             = IF ret.options.codeLength \in {Undefined, 0}
               THEN 6
               ELSE ret.options.codeLength
       /\ Len(Issued.code) > 0
       /\ IsDigits(Issued.code)

C24_Witness ==
    /\ Called("createValidationRequest")
    /\ Len(Issued.code) = 6
    /\ Issued.code[1] # Issued.code[6]
    /\ IsDigits(Issued.code)

C27_MetadataOpaque ==
    /\ \A type \in ValidationType :
          (/\ Called("validateCode") \/ Called("isValidated") \/ Called("save")
           /\ HasEntry(ret.before, type))
          => /\ HasEntry(validations, type)
             /\ EntryOf(validations, type).metadata
                    = EntryOf(ret.before, type).metadata
    /\ Called("createValidationRequest") => Issued.metadata = NoMetadata
    /\ (Submitted /\ Found.metadata # NoMetadata)
          => (ret.result
                 <=> \/ Found.validated
                     \/ /\ ~ PastExpiry(Found, ret.at)
                        /\ ret.code = Found.code
                        /\ Found.tries < pluginConfig.MAX_TRIES)

C27_Witness ==
    /\ Submitted
    /\ Found.metadata # NoMetadata
    /\ ~ Found.validated
    /\ ret.result
    /\ Left.validated
    /\ Left.metadata = Found.metadata

\* C28: absent expire_at. In every reachable array an entry without
\* expire_at is validated, has the empty code and tries 0 (it was pushed
\* validated by the pre-save hook); the entry pushed by
\* createValidationRequest has an expire_at, and no call takes the expire_at
\* of an entry away.
C28_ExpiryAbsentOnlyWhenCreatedValidated ==
    /\ \A i \in 1 .. Len(validations) :
          validations[i].expire_at = Undefined
          => /\ validations[i].validated
             /\ validations[i].code = <<>>
             /\ validations[i].tries = 0
    /\ Called("createValidationRequest") => Issued.expire_at # Undefined
    /\ \A type \in ValidationType :
          (/\ ~ Called("new")
           /\ HasEntry(ret.before, type)
           /\ EntryOf(ret.before, type).expire_at # Undefined)
          => /\ HasEntry(validations, type)
             /\ EntryOf(validations, type).expire_at # Undefined

C28_Witness ==
    /\ Called("save")
    /\ ret.hasChanges
    /\ \E i \in 1 .. Len(validations) :
          /\ validations[i].expire_at = Undefined
          /\ validations[i].validated
    /\ \E i \in 1 .. Len(validations) :
          /\ validations[i].expire_at # Undefined
          /\ validations[i].validated
          /\ validations[i].tries >= 1

\* C29: no sweep. No call removes the entry of a type: a type that had an
\* entry before a call has one after it, also when the entry is expired or
\* past the attempt ceiling; validateCode, isValidated and the hook never
\* shorten the array; createValidationRequest leaves the entries of the
\* other types as they were and changes the length by at most the one entry
\* it pushes.
C29_NeverSwept ==
    /\ \A type \in ValidationType :
          (~ Called("new") /\ HasEntry(ret.before, type))
          => HasEntry(validations, type)
    /\ (Called("validateCode") \/ Called("isValidated") \/ Called("save"))
          => Len(validations) >= Len(ret.before)
    /\ Called("createValidationRequest")
          => /\ \A type \in ValidationType \ {ret.type} :
                   HasEntry(ret.before, type)
                   => EntryOf(validations, type) = EntryOf(ret.before, type)
             /\ Len(validations)
                   = IF HasEntry(ret.before, ret.type)
                     THEN Len(ret.before)
                     ELSE Len(ret.before) + 1

C29_Witness ==
    /\ Submitted
    /\ ~ Found.validated
    /\ PastExpiry(Found, ret.at)
    /\ Found.tries > pluginConfig.MAX_TRIES
    /\ HasEntry(validations, ret.type)
    /\ Left = Found

\* C30: the virtual getters. In every state of the document email_validated,
\* phone_validated, identity_validated and address_validated equal
\* isValidated of their own type.
C30_VirtualGetters ==
    /\ email_validated = isValidated("email")
    /\ phone_validated = isValidated("phone")
    /\ identity_validated = isValidated("identity")
    /\ address_validated = isValidated("address")

C30_Witness ==
    /\ email_validated
    /\ ~ phone_validated
    /\ HasEntry(validations, "phone")
    /\ ~ identity_validated
    /\ ~ HasEntry(validations, "identity")

\* C31: the expiry boundary is strict. A validateCode made at exactly
\* expire_at on an unvalidated entry counts the attempt and compares the
\* code, so the right code succeeds when tries was below MAX_TRIES; a
\* submission on an unvalidated entry goes uncounted (rejected as expired)
\* exactly when the clock is past expire_at.
C31_StrictExpiryBoundary ==
    (Submitted /\ ~ Found.validated)
    => /\ ret.at = Found.expire_at
             => /\ Left.tries = Found.tries + 1
                /\ Left.last_try = ret.at
                /\ ret.result
                      <=> (ret.code = Found.code
                           /\ Found.tries < pluginConfig.MAX_TRIES)
       /\ Left = Found <=> ret.at > Found.expire_at

C31_Witness ==
    /\ Submitted
    /\ ~ Found.validated
    /\ ret.at = Found.expire_at
    /\ ret.result
    /\ Left.validated
    /\ Left.tries = Found.tries + 1

\* C32: no locking. Each caller works on its own copy: the attempt ceiling
\* is applied to tries of the copy, and a save replaces the stored array by
\* the copy of the caller that saves last, so the stored tries never
\* exceeds, and can stay below, the number of submissions made (the witness
\* is a run of two callers in which more than MAX_TRIES submissions were
\* compared with the one code and the stored tries is below their number).
C32_LastWriteWins ==
    /\ EntryOf(validations, "phone").tries <= nOps
    /\ evaluated <= nOps
    /\ (Submitted /\ ~ Found.validated /\ ret.result)
          => Found.tries < pluginConfig.MAX_TRIES
    /\ (Submitted /\ ~ Found.validated /\ ~ PastExpiry(Found, ret.at))
          => \E caller \in Callers :
                /\ loaded[caller] # NotLoaded
                /\ EntryOf(loaded[caller], ret.type).tries = Found.tries + 1
    /\ Called("save") => validations = ret.before

C32_Witness ==
    /\ \A caller \in Callers : loaded[caller] = NotLoaded
    /\ Called("save")
    /\ ~ EntryOf(validations, "phone").validated
    /\ evaluated > pluginConfig.MAX_TRIES
    /\ EntryOf(validations, "phone").tries < nOps

\* C33: confirmation safety. A type that was not validated before a call is
\* validated after it only (a) by validateCode on that type with the code of
\* its entry, made no later than expire_at, with tries below MAX_TRIES
\* before the call, or (b) by the pre-save hook on a new document with
\* ENABLED true and the validation of that type switched off.
C33_ConfirmationSafety ==
    \A type \in ValidationType :
       (~ Called("new") /\ ~ WasValidated(type) /\ IsNowValidated(type))
       => \/ /\ Submitted
             /\ ret.type = type
             /\ ret.code = Found.code
             /\ ret.at <= Found.expire_at
             /\ Found.tries < pluginConfig.MAX_TRIES
          \/ /\ Called("save")
             /\ ret.wasNew
             /\ pluginConfig["ENABLED"]
             /\ ~ Required(type)

C33_Witness ==
    /\ Submitted
    /\ ~ WasValidated(ret.type)
    /\ IsNowValidated(ret.type)
    /\ Found.tries >= 1
    /\ ret.at > Found.created
    /\ Required(ret.type)

\* C34: isolation of the types. createValidationRequest and validateCode on
\* one type leave the entry of every other type as it was, in every field,
\* and validateCode gives no other type an entry; the pre-save hook changes
\* of an existing entry at most validated, to true, and only for a type
\* whose validation is switched off.
C34_TypeIsolation ==
    /\ (Called("createValidationRequest") \/ Called("validateCode"))
          => \A type \in ValidationType \ {ret.type} :
                /\ HasEntry(validations, type) <=> HasEntry(ret.before, type)
                /\ HasEntry(ret.before, type)
                      => EntryOf(validations, type) = EntryOf(ret.before, type)
    /\ Called("save")
          => \A type \in ValidationType :
                HasEntry(ret.before, type)
                => \/ EntryOf(validations, type) = EntryOf(ret.before, type)
                   \/ /\ ~ Required(type)
                      /\ EntryOf(validations, type)
                            = [EntryOf(ret.before, type) EXCEPT !.validated = TRUE]

C34_Witness ==
    /\ Submitted
    /\ ~ Found.validated
    /\ Left # Found
    /\ \E type \in ValidationType \ {ret.type} :
          /\ HasEntry(ret.before, type)
          /\ EntryOf(validations, type) = EntryOf(ret.before, type)

\* C35: the value of validateCode is the status afterwards. validateCode on
\* a type returns true exactly when that type is validated right after the
\* call, whatever was submitted and whatever state the array was in.
C35_ResultIsStatus ==
    Called("validateCode") => (ret.result <=> IsNowValidated(ret.type))

C35_Witness ==
    /\ Submitted
    /\ ret.code = Found.code
    /\ ~ ret.result
    /\ ~ IsNowValidated(ret.type)
    /\ Left.tries > Found.tries

\* C36: MAX_TRIES = 0. Under a ceiling of zero every validateCode on an
\* unvalidated entry returns false and leaves it unvalidated, also the right
\* code on an entry just requested (its tries goes from 0 to 1, which is
\* above 0); a type becomes validated through the pre-save hook only.
C36_ZeroCeiling ==
    pluginConfig.MAX_TRIES = 0
    => /\ (Submitted /\ ~ Found.validated)
             => /\ ~ ret.result
                /\ ~ Left.validated
                /\ ~ PastExpiry(Found, ret.at) => Left.tries = Found.tries + 1
       /\ \A type \in ValidationType :
             (~ Called("new") /\ ~ WasValidated(type) /\ IsNowValidated(type))
             => Called("save")

C36_Witness ==
    /\ pluginConfig.MAX_TRIES = 0
    /\ Submitted
    /\ ~ Found.validated
    /\ Found.tries = 0
    /\ ret.code = Found.code
    /\ ~ ret.result
    /\ Left.tries = 1

\* C37: the hook is idempotent. After the hook has run on a new document
\* with ENABLED true, every type whose validation is switched off is
\* validated; and a run of the hook on a new document on which all those
\* types are validated already, as after a first run, changes nothing and
\* leaves hasChanges false.
C37_HookIdempotent ==
    (Called("save") /\ ret.wasNew /\ pluginConfig["ENABLED"])
    => /\ \A type \in ValidationType : ~ Required(type) => IsNowValidated(type)
       /\ (\A type \in ValidationType : ~ Required(type) => WasValidated(type))
             => /\ ~ ret.hasChanges
                /\ validations = ret.before
                /\ hasValidations = ret.wasPresent

C37_Witness ==
    /\ Called("save")
    /\ ret.wasNew
    /\ pluginConfig["ENABLED"]
    /\ \E type \in ValidationType :
          /\ ~ Required(type)
          /\ WasValidated(type)
          /\ EntryOf(ret.before, type).expire_at = Undefined
    /\ \E type \in ValidationType : Required(type)
    /\ \A type \in ValidationType : ~ Required(type) => WasValidated(type)
    /\ ~ ret.hasChanges
    /\ validations = ret.before

\* C38: next(). Every run of the pre-save hook calls next() exactly once:
\* when ENABLED is false, when the document is not new, and after the blocks
\* have run on a new document.
C38_NextCalledOnce ==
    Called("save") => ret.next = 1

C38_Witness ==
    /\ Called("save")
    /\ ~ pluginConfig["ENABLED"]
    /\ ret.wasNew
    /\ ~ Required("phone")
    /\ ret.next = 1

=============================================================================
